---- MODULE Spec2Model ----
(***************************************************************************)
(* A model of the carbon-accounting backend:                               *)
(*   - compute_sensor_emissions (backend/main.py): the reconciliation of   *)
(*     the sensors and sensors_activity tables into per-sensor energy and  *)
(*     emission summaries for a query window;                              *)
(*   - EmissionFactorDatabase and CarbonCalculator                         *)
(*     (backend/api/calculations/carbon_calculator.py);                    *)
(*   - the factor cache (backend/api/emission_factors.py).                 *)
(*                                                                         *)
(* Representation.  Python None / SQL NULL is NULL; a value that float()   *)
(* or _parse_iso cannot parse is BAD.  A timestamp is a whole number of    *)
(* hours (an ISO string that parses; _parse_iso keeps the order).  Energy  *)
(* and power are whole numbers of 10^-7 kWh / kW (Quantum6 such units make *)
(* one step of round(x, 6)); a sensor's emission factor is a whole number  *)
(* of 1/FactorDen kg/kWh, so emissions are whole numbers of                *)
(* 10^-7/FactorDen kg.  Arithmetic is exact.                               *)
(***************************************************************************)
EXTENDS Integers, Sequences, FiniteSets, Bags, TLC

VARIABLES
    sensors,            \* the sensors table: a set of rows
    sensors_activity,   \* the sensors_activity table: a bag of rows
    result,             \* what the last compute_sensor_emissions call returned
    config,             \* the emission_factors section of the config file
    emission_factors,   \* EmissionFactorDatabase.emission_factors
    data_points,        \* the EmissionDataPoint records held by the caller
    lookup,             \* what the last get_emission_factor call returned
    thresholds,         \* CarbonCalculator.thresholds
    summary,            \* what the last generate_summary call returned
    cache_file,         \* the file at CACHE_PATH
    refresh,            \* the refresh_cached_factors call in progress
    observed,           \* what the last load_cached_factors call of a reader returned
    predictor,          \* an EmissionPredictor and the outcome of its last call
    session_start,      \* the session_start column of the sensors table
    end_requests,       \* the end_session requests in progress
    session_log         \* how many sessions were started and how many rows inserted

vars == <<sensors, sensors_activity, result, config, emission_factors, data_points, lookup,
          thresholds, summary, cache_file, refresh, observed,
          predictor, session_start, end_requests, session_log>>

sensorVars == <<sensors, sensors_activity, result>>
calcVars == <<config, emission_factors, data_points, lookup>>
summaryVars == <<thresholds, summary>>
cacheVars == <<cache_file, refresh, observed>>
sessionVars == <<session_start, end_requests, session_log>>
otherVars == <<predictor, sessionVars>>

NULL == -1
BAD == -2

\* ------------------------------------------------------------ bounds
MaxTime == 3
MaxRows == 2
MaxPoints == 2
MaxSources == 2
MaxSessions == 2

\* ------------------------------------------------------------ numbers
Quantum6 == 10
OneKWh == 10000000
FactorDen == 2

Max(a, b) == IF a >= b THEN a ELSE b
Min(a, b) == IF a <= b THEN a ELSE b

\* Python's round(x, n) on a value that is a whole number of units, q units
\* making one step of the n-th decimal: the nearest multiple of q, a tie going
\* to the even multiple.
RoundTo(x, q) ==
    LET lo == (x \div q) * q
        r == x - lo
    IN  IF 2 * r < q THEN lo
        ELSE IF 2 * r > q THEN lo + q
        ELSE IF (lo \div q) % 2 = 0 THEN lo ELSE lo + q

\* round(energy_kwh, 6)
Round6Energy(e) == RoundTo(e, Quantum6)
\* round(emissions_kg, 6) and round(total_emissions, 6)
Round6Emissions(m) == RoundTo(m, Quantum6 * FactorDen)
\* round(on_hours, 4): a whole number of hours is a multiple of 10^-4 hours
Round4Hours(h) == RoundTo(h * 10000, 1) \div 10000

\* float(v) of a field: None when it raises
Float(v) == IF v = BAD THEN NULL ELSE v
\* float(v or 0)
FloatOr0(v) == IF v = NULL THEN 0 ELSE v

\* _parse_iso(ts): None for None and for text no format matches
ParseIso(ts) == IF ts = NULL \/ ts = BAD THEN NULL ELSE ts

\* str.upper() on the state texts of the model
Upper(s) ==
    CASE s = "on" -> "ON"
      [] s = "off" -> "OFF"
      [] OTHER -> s

\* ------------------------------------------------------------ tables
Times == 0 .. MaxTime

\* The query windows the callers pass: the first instant of a month and the
\* first instant of the next one, start before end.
Windows == {w \in Times \X Times : w[1] < w[2]}

Companies == {1, 2}

\* A row of the sensors table (id is the canonical key, device_id the
\* external one).
Sensor(id, dev, company, power, factor) ==
    [id |-> id, device_id |-> dev, company_id |-> company,
     power_kW |-> power, emission_factor |-> factor]

\* The contents of the sensors table: company 1 owns two sensors, company 2
\* none.  Sensor 1 is rated 2 kW with factor 0.5 kg/kWh; sensor 2 has no
\* rating stored and factor 2 kg/kWh.
InitialSensors ==
    {Sensor(1, 101, 1, 2 * OneKWh, 1), Sensor(2, 102, 1, NULL, 2 * FactorDen)}

\* A row of the sensors_activity table.  energy_kwh stands for the first of
\* energy_kwh / kwh / energy that is set; state "" is no state.
Row(dev, energy, hours, ss, se, ts, st) ==
    [device_id |-> dev, energy_kwh |-> energy, hours |-> hours,
     session_start |-> ss, session_end |-> se, timestamp |-> ts, state |-> st]

\* 1.4 * 10^-6 kWh: a value round(x, 6) changes
TinyEnergy == Quantum6 + 4
TenKWh == 10 * OneKWh

\* Rows that carry an explicit energy value.
EnergyRows ==
    {Row(101, e, NULL, 1, 2, NULL, "") : e \in {BAD, TinyEnergy, TenKWh}}
    \cup {Row(2, e, NULL, 1, 2, NULL, "") : e \in {BAD, TinyEnergy}}
    \cup {Row(101, TenKWh, NULL, NULL, NULL, NULL, "")}

\* Rows of the shape end_session inserts: keyed by the canonical id, with
\* hours = session_end - session_start.
SessionRows ==
    {Row(1, NULL, w[2] - w[1], w[1], w[2], NULL, "") : w \in Windows}

\* Rows with a start and an end and no hour count, keyed by the external id;
\* the end may fail to be after the start.
TimestampRows ==
    {Row(101, NULL, NULL, w[1], w[2], NULL, "") :
        w \in {v \in Times \X Times : v[1] <= v[2]}}

\* Rows with an hour count: alone, and unparseable next to an interval.
HoursRows ==
    {Row(101, NULL, 1, NULL, NULL, NULL, ""), Row(101, NULL, BAD, 0, 2, NULL, "")}

\* Rows of ON/OFF state changes.
EventRows ==
    {Row(101, NULL, NULL, NULL, NULL, ts, st) :
        ts \in Times \cup {BAD}, st \in {"ON", "off"}}

\* A session and a state change of sensor 2, a row of a device no sensor of
\* the table has, and a row whose start is only in its timestamp field.
OtherRows ==
    {Row(2, NULL, NULL, 1, 2, NULL, ""),
     Row(2, NULL, NULL, NULL, NULL, 1, "ON"),
     Row(109, NULL, NULL, 1, 2, NULL, ""),
     Row(101, NULL, NULL, NULL, 2, 1, "ON")}

RowShapes ==
    EnergyRows \cup SessionRows \cup TimestampRows \cup HoursRows
        \cup EventRows \cup OtherRows

\* ------------------------------------------------------------ helpers
Range(f) == {f[i] : i \in DOMAIN f}

RECURSIVE SumSeq(_)
SumSeq(q) == IF q = <<>> THEN 0 ELSE Head(q) + SumSeq(Tail(q))

\* The rows of bag B that satisfy P, with their multiplicities.
BagSelect(B, keep) == [r \in (DOMAIN B) \cap keep |-> B[r]]

SeqToBag(q) == [r \in Range(q) |-> Cardinality({i \in DOMAIN q : q[i] = r})]

\* The orders in which a query can return the rows of bag B (no ORDER BY).
RECURSIVE SeqsOfBag(_)
SeqsOfBag(B) ==
    IF DOMAIN B = {} THEN {<<>>}
    ELSE UNION {{<<r>> \o q : q \in SeqsOfBag(B (-) SetToBag({r}))} : r \in DOMAIN B}

\* ------------------------------------------------------------ compute_sensor_emissions
\* sensors = rows of the sensors table with company_id = company_id
CompanySensors(table, company_id) == {s \in table : s.company_id = company_id}

SensorMeta(s) ==
    [id |-> s.id, device_id |-> s.device_id,
     power_kW |-> FloatOr0(s.power_kW),
     emission_factor |-> FloatOr0(s.emission_factor)]

\* device_keys: every identifier, canonical or external, of the sensors
DeviceKeys(ss) ==
    {s.id : s \in {x \in ss : x.id # NULL}}
        \cup {s.device_id : s \in {x \in ss : x.device_id # NULL}}

\* sensor_map: identifier -> metadata (identifiers are unique in the table)
SensorMap(ss) ==
    [k \in DeviceKeys(ss) |->
        SensorMeta(CHOOSE s \in ss : s.id = k \/ s.device_id = k)]

\* The chained query: in_(device_id).lt(session_start, end).gte(session_end,
\* start).  A comparison with NULL selects nothing.
DbOverlaps(a, start_iso, end_iso) ==
    /\ a.session_start # NULL /\ a.session_start < end_iso
    /\ a.session_end # NULL /\ a.session_end >= start_iso

DbQuery(table, dev_list, start_iso, end_iso) ==
    BagSelect(table, {a \in DOMAIN table :
        a.device_id \in dev_list /\ DbOverlaps(a, start_iso, end_iso)})

\* The fallback: fetch by device_id and filter in Python.
\* (mutant of PyOverlaps) a row that starts at the window's end counts
PyOverlapsEndInclusive(a, start_dt, end_dt) ==
    LET ss == ParseIso(a.session_start)
        se == ParseIso(a.session_end)
    IN  ss # NULL /\ se # NULL /\ ss <= end_dt /\ se >= start_dt

PyOverlaps(a, start_dt, end_dt) ==
    LET ss == ParseIso(a.session_start)
        se == ParseIso(a.session_end)
    IN  ss # NULL /\ se # NULL /\ ss < end_dt /\ se >= start_dt

PyFilter(table, dev_list, start_iso, end_iso) ==
    LET py_activities == BagSelect(table, {a \in DOMAIN table : a.device_id \in dev_list})
        start_dt == ParseIso(start_iso)
        end_dt == ParseIso(end_iso)
    IN  IF start_dt # NULL /\ end_dt # NULL
        THEN BagSelect(py_activities,
                       {a \in DOMAIN py_activities : PyOverlaps(a, start_dt, end_dt)})
        ELSE py_activities

\* did = a.get('device_id') or ...
Did(a) == a.device_id

Known(sensor_map, a) == Did(a) # NULL /\ Did(a) \in DOMAIN sensor_map

\* (mutant of CanonicalId) the row's own identifier is the key
RawId(sensor_map, did) == did

\* The key a row is grouped under.
CanonicalId(sensor_map, did) == sensor_map[did].id

\* The keys of by_canonical_id, in the order they were first inserted.
RECURSIVE GroupKeys(_, _)
GroupKeys(sensor_map, activities) ==
    IF activities = <<>> THEN <<>>
    ELSE LET n == Len(activities)
             rest == GroupKeys(sensor_map, SubSeq(activities, 1, n - 1))
             a == activities[n]
         IN  IF ~Known(sensor_map, a) THEN rest
             ELSE LET key == CanonicalId(sensor_map, Did(a))
                  IN  IF key \in Range(rest) THEN rest ELSE Append(rest, key)

\* by_canonical_id[key]
GroupOf(sensor_map, activities, key) ==
    SelectSeq(activities,
        LAMBDA a : Known(sensor_map, a) /\ CanonicalId(sensor_map, Did(a)) = key)

\* --- 1. classification
HasExplicit(a) == a.energy_kwh # NULL

\* ss = session_start or start or timestamp;  se = session_end or end
Ss(a) == IF a.session_start # NULL THEN a.session_start ELSE a.timestamp
Se(a) == a.session_end

IsDurationAct(a) ==
    /\ ~HasExplicit(a)
    /\ (a.hours # NULL \/ (Ss(a) # NULL /\ Se(a) # NULL))

StateOf(a) == IF a.state # "" THEN Upper(a.state) ELSE ""

IsEventAct(a) ==
    /\ ~HasExplicit(a)
    /\ ~IsDurationAct(a)
    /\ StateOf(a) \in {"ON", "OFF"}
    /\ a.timestamp # NULL

\* --- 2. method A: the explicit energy reports
ExplicitValue(a) == IF Float(a.energy_kwh) # NULL THEN Float(a.energy_kwh) ELSE 0

ExplicitEnergy(explicit_energy_acts) ==
    SumSeq([i \in DOMAIN explicit_energy_acts |-> ExplicitValue(explicit_energy_acts[i])])

\* --- method B: hrs of one duration row, None when it has none
DurationHours(a, start_iso, end_iso) ==
    LET hrs == IF a.hours # NULL THEN Float(a.hours) ELSE NULL
        s_dt == ParseIso(Ss(a))
        e_dt == ParseIso(Se(a))
    IN  IF hrs # NULL THEN hrs
        ELSE IF s_dt # NULL /\ e_dt # NULL /\ e_dt > s_dt
        THEN LET s_dt_clamped == Max(s_dt, ParseIso(start_iso))
                 e_dt_clamped == Min(e_dt, ParseIso(end_iso))
             IN  IF e_dt_clamped > s_dt_clamped
                 THEN e_dt_clamped - s_dt_clamped ELSE 0
        ELSE NULL

\* The rows of duration_acts that count: cycles and on_hours.
CountedHours(duration_acts, start_iso, end_iso) ==
    LET h == [i \in DOMAIN duration_acts |->
                 DurationHours(duration_acts[i], start_iso, end_iso)]
        counted == SelectSeq(h, LAMBDA x : x # NULL)
    IN  [cycles |-> Len(counted), on_hours |-> SumSeq(counted)]

\* --- method C: the ON/OFF events
EventOf(a) == [ts |-> ParseIso(a.timestamp), state |-> Upper(a.state)]

\* events: one entry per event row whose timestamp parses
ParsedEvents(event_acts) ==
    LET parsed == SelectSeq(event_acts, LAMBDA a : ParseIso(a.timestamp) # NULL)
    IN  [i \in DOMAIN parsed |-> EventOf(parsed[i])]

\* events.sort(key=ts): a stable sort
RECURSIVE SortEvents(_)
SortEvents(events) ==
    IF events = <<>> THEN <<>>
    ELSE LET n == Len(events)
             sorted == SortEvents(SubSeq(events, 1, n - 1))
             ev == events[n]
             k == Cardinality({i \in DOMAIN sorted : sorted[i].ts <= ev.ts})
         IN  SubSeq(sorted, 1, k) \o <<ev>> \o SubSeq(sorted, k + 1, Len(sorted))

\* One turn of the loop over the sorted events.
EventStep(st, ev, start_dt, end_dt) ==
    IF ev.ts < start_dt \/ ev.ts > end_dt THEN st
    ELSE IF ev.state = "ON"
    THEN IF st.on_since = NULL THEN [st EXCEPT !.on_since = ev.ts] ELSE st
    ELSE IF ev.state = "OFF" /\ st.on_since # NULL
    THEN LET start_clamp == Max(st.on_since, start_dt)
             end_clamp == Min(ev.ts, end_dt)
         IN  [on_since |-> NULL,
              ev_on |-> st.ev_on + (IF end_clamp > start_clamp
                                    THEN end_clamp - start_clamp ELSE 0),
              ev_cycles |-> st.ev_cycles + 1]
    ELSE st

RECURSIVE RunEvents(_, _, _, _)
RunEvents(st, events, start_dt, end_dt) ==
    IF events = <<>> THEN st
    ELSE RunEvents(EventStep(st, Head(events), start_dt, end_dt),
                   Tail(events), start_dt, end_dt)

\* ev_hours and ev_cycles after the loop and the closing of an open run
EventHours(event_acts, start_iso, end_iso) ==
    LET start_dt == ParseIso(start_iso)
        end_dt == ParseIso(end_iso)
        st == RunEvents([on_since |-> NULL, ev_on |-> 0, ev_cycles |-> 0],
                        SortEvents(ParsedEvents(event_acts)), start_dt, end_dt)
        start_clamp == Max(st.on_since, start_dt)
        open == IF st.on_since # NULL /\ end_dt > start_clamp
                THEN end_dt - start_clamp ELSE 0
    IN  [ev_hours |-> st.ev_on + open, ev_cycles |-> st.ev_cycles]

\* --- the preference A > B > C: energy_kwh, cycles and on_hours of one sensor
ZeroUsage == [energy_kwh |-> 0, cycles |-> 0, on_hours |-> 0]

\* (mutant of SensorUsage) the duration rows are added to the explicit energy
SensorUsageMixed(meta, acts, start_iso, end_iso) ==
    LET power_kw == FloatOr0(meta.power_kW)
        explicit_energy_acts == SelectSeq(acts, HasExplicit)
        c == CountedHours(SelectSeq(acts, IsDurationAct), start_iso, end_iso)
    IN  [energy_kwh |-> ExplicitEnergy(explicit_energy_acts) + c.on_hours * power_kw,
         cycles |-> Len(explicit_energy_acts) + c.cycles,
         on_hours |-> c.on_hours]

SensorUsage(meta, acts, start_iso, end_iso) ==
    LET power_kw == FloatOr0(meta.power_kW)
        explicit_energy_acts == SelectSeq(acts, HasExplicit)
        duration_acts == SelectSeq(acts, IsDurationAct)
        event_acts == SelectSeq(acts, IsEventAct)
    IN  IF explicit_energy_acts # <<>>
        THEN [energy_kwh |-> ExplicitEnergy(explicit_energy_acts),
              cycles |-> Len(explicit_energy_acts),
              on_hours |-> 0]
        ELSE IF duration_acts # <<>>
        THEN LET c == CountedHours(duration_acts, start_iso, end_iso)
             IN  [energy_kwh |-> IF power_kw > 0 THEN c.on_hours * power_kw ELSE 0,
                  cycles |-> c.cycles,
                  on_hours |-> c.on_hours]
        ELSE IF event_acts # <<>> /\ power_kw > 0
        THEN LET e == EventHours(event_acts, start_iso, end_iso)
             IN  IF ParsedEvents(event_acts) # <<>> /\ e.ev_hours > 0
                 THEN [energy_kwh |-> e.ev_hours * power_kw,
                       cycles |-> e.ev_cycles,
                       on_hours |-> e.ev_hours]
                 ELSE ZeroUsage
        ELSE ZeroUsage

\* --- 3. emissions_kg = energy_kwh * factor
\* (mutant of EmissionsKg) the energy is rounded before it is multiplied
EmissionsOfRounded(energy_kwh, factor) == Round6Energy(energy_kwh) * factor

EmissionsKg(energy_kwh, factor) == energy_kwh * factor

\* What the loop body computes for one key of by_canonical_id: the locals
\* energy_kwh and emissions_kg, the rows of the group, and the summary entry.
SensorEntry(sensor_map, activities, key, start_iso, end_iso) ==
    LET meta == sensor_map[key]
        acts == GroupOf(sensor_map, activities, key)
        u == SensorUsage(meta, acts, start_iso, end_iso)
        emissions_kg == EmissionsKg(u.energy_kwh, FloatOr0(meta.emission_factor))
    IN  [key |-> key,
         acts |-> SeqToBag(acts),
         energy_kwh |-> u.energy_kwh,
         emissions_kg |-> emissions_kg,
         summary |-> [sensor_id |-> meta.id,
                      device_id |-> meta.device_id,
                      energy_kwh |-> Round6Energy(u.energy_kwh),
                      emissions_kg |-> Round6Emissions(emissions_kg),
                      cycles |-> u.cycles,
                      on_hours |-> Round4Hours(u.on_hours)]]

\* total_emissions += emissions_kg, over the entries
TotalEmissions(entries) == SumSeq([i \in DOMAIN entries |-> entries[i].emissions_kg])

\* The return value for the rows `activities`, in the order the query gave
\* them.  locals keeps, per summary, the unrounded values and the group.
Reconcile(company_id, sensor_map, activities, start_iso, end_iso, path) ==
    LET keys == GroupKeys(sensor_map, activities)
        entries == [i \in DOMAIN keys |->
                       SensorEntry(sensor_map, activities, keys[i], start_iso, end_iso)]
    IN  [company_id |-> company_id,
         start_iso |-> start_iso,
         end_iso |-> end_iso,
         path |-> path,
         activities |-> SeqToBag(activities),
         total |-> Round6Emissions(TotalEmissions(entries)),
         summaries |-> [i \in DOMAIN entries |-> entries[i].summary],
         locals |-> [i \in DOMAIN entries |->
                        [key |-> entries[i].key, acts |-> entries[i].acts,
                         energy_kwh |-> entries[i].energy_kwh,
                         emissions_kg |-> entries[i].emissions_kg]]]

NoResult == [path |-> "idle"]

\* The ways the activity query can go: the chained filter works, it raises
\* and the rows are filtered in Python, or the fetch raises as well.
Paths == {"db", "py", "fail"}

Activities(table, dev_list, start_iso, end_iso, path) ==
    CASE path = "db" -> DbQuery(table, dev_list, start_iso, end_iso)
      [] path = "py" -> PyFilter(table, dev_list, start_iso, end_iso)
      [] OTHER -> EmptyBag

\* ------------------------------------------------------------ EmissionFactorDatabase
\* Factors are whole numbers of 10^-3 kg CO2e per unit.
Milli == 1000

\* _load_default_factors()
DefaultFactors ==
    [electricity |-> [SE |-> 13, NO |-> 18, DK |-> 167, FI |-> 93, default |-> 500],
     natural_gas |-> [default |-> 2030],
     diesel |-> [default |-> 2680],
     petrol |-> [default |-> 2310],
     heating_oil |-> [default |-> 2960],
     lpg |-> [default |-> 3000],
     transport_freight |->
         [truck |-> 97, rail |-> 22, ship |-> 11, air |-> 602, default |-> 97],
     transport_business_travel |->
         [car |-> 171, bus |-> 89, train |-> 41, flight_domestic |-> 255,
          flight_international |-> 195, default |-> 171],
     waste_disposal |->
         [landfill |-> 500, incineration |-> 20, recycling |-> 0 - 150,
          composting |-> 10, default |-> 500],
     water_consumption |-> [default |-> 344],
     refrigerants |->
         ("R-134a" :> 1430000 @@ "R-410A" :> 2088000 @@ "R-32" :> 675000
              @@ "default" :> 1430000)]

\* No config file, or one without an emission_factors section.
NoConfig == <<>>

\* The emission_factors sections of the config files of the model: a new
\* country for an activity of the table, a new value for a key of the table,
\* a new activity with a default and a new activity without one.
CustomConfigs ==
    {NoConfig,
     [electricity |-> [DE |-> 400]],
     [electricity |-> [SE |-> 20]],
     [hydrogen |-> [default |-> 900]],
     [biogas |-> [SE |-> 100]]}

\* dict.update: the keys of `factors` take its values, the others stay
Update(old, factors) ==
    [k \in DOMAIN old \cup DOMAIN factors |->
        IF k \in DOMAIN factors THEN factors[k] ELSE old[k]]

\* (mutant of LoadCustomFactors) the section's entry replaces the table's
LoadCustomFactorsReplace(table, custom) ==
    [activity \in DOMAIN table \cup DOMAIN custom |->
        IF activity \in DOMAIN custom THEN custom[activity] ELSE table[activity]]

\* _load_custom_factors: merge the section into the table
LoadCustomFactors(table, custom) ==
    [activity \in DOMAIN table \cup DOMAIN custom |->
        IF activity \in DOMAIN custom
        THEN IF activity \in DOMAIN table
             THEN Update(table[activity], custom[activity])
             ELSE custom[activity]
        ELSE table[activity]]

\* The factor of an activity the table does not have: 1.0
FallbackFactor == 1 * Milli

\* sub_type None
None == "<None>"

\* The truth value of an optional text: None and '' are false.
TruthyText(t) == t # None /\ t # ""

\* (mutant of GetEmissionFactor) the country is looked up before the sub-type
GetEmissionFactorCountryFirst(table, activity_key, country_code, sub_type) ==
    IF activity_key \notin DOMAIN table THEN FallbackFactor
    ELSE LET factors == table[activity_key]
         IN  IF country_code \in DOMAIN factors THEN factors[country_code]
             ELSE IF TruthyText(sub_type) /\ sub_type \in DOMAIN factors
             THEN factors[sub_type]
             ELSE IF "default" \in DOMAIN factors THEN factors["default"]
             ELSE FallbackFactor

\* get_emission_factor(activity_type, country_code, sub_type)
GetEmissionFactor(table, activity_key, country_code, sub_type) ==
    IF activity_key \notin DOMAIN table THEN FallbackFactor
    ELSE LET factors == table[activity_key]
         IN  IF TruthyText(sub_type) /\ sub_type \in DOMAIN factors
             THEN factors[sub_type]
             ELSE IF country_code \in DOMAIN factors THEN factors[country_code]
             ELSE IF "default" \in DOMAIN factors THEN factors["default"]
             ELSE FallbackFactor

\* ------------------------------------------------------------ CarbonCalculator
\* str.lower() on the unit texts of the model
Lower(unit) ==
    CASE unit = "kWh" -> "kwh"
      [] unit = "MWh" -> "mwh"
      [] unit = "GWh" -> "gwh"
      [] unit = "MWH" -> "mwh"
      [] unit = "M.W.h" -> "m.w.h"
      [] unit = "k Wh" -> "k wh"
      [] unit = "Liter" -> "liter"
      [] unit = "SWE" -> "swe"
      [] unit = "NOR" -> "nor"
      [] unit = "FIN" -> "fin"
      [] OTHER -> unit

\* str.strip() on the unit texts of the model
Strip(text) ==
    CASE text = " mwh " -> "mwh"
      [] OTHER -> text

\* str.replace(char, '') on the unit texts of the model
Remove(text, char) ==
    CASE text = "m.w.h" /\ char = "." -> "mwh"
      [] text = "k wh" /\ char = " " -> "kwh"
      [] OTHER -> text

\* normalize_unit(u)
NormalizeUnit(u) ==
    IF u = "" THEN "" ELSE Remove(Remove(Strip(Lower(u)), " "), ".")

\* (mutant of ConvertUnits) a litre is taken as a base unit
ConvertUnitsLitreAsBase(amount, unit) ==
    LET unit_lower == Lower(unit)
    IN  IF unit_lower \in {"mwh", "megawatt-hour"} THEN amount * 1000 * Milli
        ELSE IF unit_lower \in {"gwh", "gigawatt-hour"} THEN amount * 1000000 * Milli
        ELSE IF unit_lower \in {"t", "ton", "tonne"} THEN amount * 1000 * Milli
        ELSE IF unit_lower \in {"m", "meter"} THEN amount
        ELSE amount * Milli

\* _convert_units(amount, unit, activity_type), in 10^-3 of the base unit
ConvertUnits(amount, unit) ==
    LET unit_lower == Lower(unit)
    IN  IF unit_lower \in {"kwh", "kilowatt-hour"} THEN amount * Milli
        ELSE IF unit_lower \in {"mwh", "megawatt-hour"} THEN amount * 1000 * Milli
        ELSE IF unit_lower \in {"gwh", "gigawatt-hour"} THEN amount * 1000000 * Milli
        ELSE IF unit_lower \in {"m3", "m³", "cubic meter"} THEN amount * Milli
        ELSE IF unit_lower \in {"l", "liter", "litre"} THEN amount
        ELSE IF unit_lower \in {"kg", "kilogram"} THEN amount * Milli
        ELSE IF unit_lower \in {"t", "ton", "tonne"} THEN amount * 1000 * Milli
        ELSE IF unit_lower \in {"km", "kilometer"} THEN amount * Milli
        ELSE IF unit_lower \in {"m", "meter"} THEN amount
        ELSE amount * Milli

\* (mutant of CalculateEmissions) the amount is not converted
CalculateEmissionsRawAmount(table, activity_type, amount, unit, country_code, sub_type) ==
    amount * Milli * GetEmissionFactor(table, activity_type, country_code, sub_type)

\* calculate_emissions(activity_type, amount, unit, country_code, sub_type),
\* in 10^-6 kg CO2e
CalculateEmissions(table, activity_type, amount, unit, country_code, sub_type) ==
    LET emission_factor == GetEmissionFactor(table, activity_type, country_code, sub_type)
        converted_amount == ConvertUnits(amount, unit)
    IN  converted_amount * emission_factor

\* The truth value of an optional number: None and 0 are false.
TruthyNumber(v) == v # NULL /\ v # 0

\* calculate_for_data_point(data_point)
CalculateForDataPoint(table, data_point) ==
    LET factor == IF ~TruthyNumber(data_point.emission_factor)
                  THEN GetEmissionFactor(table, data_point.activity_type,
                                         data_point.country_code, None)
                  ELSE data_point.emission_factor
        emissions == IF ~TruthyNumber(data_point.co2_emissions)
                     THEN CalculateEmissions(table, data_point.activity_type,
                              data_point.amount, data_point.unit,
                              data_point.country_code, None)
                     ELSE data_point.co2_emissions
    IN  [data_point EXCEPT !.emission_factor = factor, !.co2_emissions = emissions]

\* calculate_bulk(data_points)
CalculateBulk(table, points) ==
    [i \in DOMAIN points |-> CalculateForDataPoint(table, points[i])]

\* --- generate_summary
\* One kg CO2e, in the unit of co2_emissions (10^-6 kg).
MicroKg == Milli * Milli

Abs(x) == IF x < 0 THEN 0 - x ELSE x

RECURSIVE GCD(_, _)
GCD(a, b) == IF b = 0 THEN a ELSE GCD(b, a % b)

\* A quotient that does not exist (None).
NullFraction == [num |-> 0, den |-> 0]

\* n / d * 100 as a fraction in lowest terms (d > 0).
Percent(n, d) ==
    LET g == GCD(Abs(n), d)
        h == GCD(100, d \div g)
    IN  [num |-> (n \div g) * (100 \div h), den |-> (d \div g) \div h]

\* total > threshold, the total in 10^-6 kg and the threshold in kg
Exceeds(total, threshold) ==
    \/ total \div MicroKg > threshold
    \/ total \div MicroKg = threshold /\ total % MicroKg > 0

\* (mutant of CheckComplianceStatus) a total at its threshold warns
CheckComplianceStatusAtOrAbove(limits, scope_1, scope_2, scope_3) ==
    IF \/ scope_1 \div MicroKg >= limits.scope_1_warning
       \/ scope_2 \div MicroKg >= limits.scope_2_warning
       \/ scope_3 \div MicroKg >= limits.scope_3_warning
    THEN "warning"
    ELSE "compliant"

\* _check_compliance_status(scope_1, scope_2, scope_3): the comparisons are
\* made from left to right until one holds; self.thresholds[key] raises
\* KeyError for a key the mapping does not have
CheckComplianceStatus(limits, scope_1, scope_2, scope_3) ==
    IF "scope_1_warning" \notin DOMAIN limits THEN "KeyError"
    ELSE IF Exceeds(scope_1, limits.scope_1_warning) THEN "warning"
    ELSE IF "scope_2_warning" \notin DOMAIN limits THEN "KeyError"
    ELSE IF Exceeds(scope_2, limits.scope_2_warning) THEN "warning"
    ELSE IF "scope_3_warning" \notin DOMAIN limits THEN "KeyError"
    ELSE IF Exceeds(scope_3, limits.scope_3_warning) THEN "warning"
    ELSE "compliant"

\* generate_summary raised instead of returning a summary.
Raised(exception) == [error |-> exception]

\* (mutant of FilteredPoints) the end of the period is excluded
FilteredPointsEndExclusive(points, company_id, period_start, period_end) ==
    {i \in DOMAIN points :
        /\ points[i].company_id = company_id
        /\ period_start <= points[i].date
        /\ points[i].date < period_end}

\* filtered_points: the positions of the records of the company and the period
FilteredPoints(points, company_id, period_start, period_end) ==
    {i \in DOMAIN points :
        /\ points[i].company_id = company_id
        /\ period_start <= points[i].date
        /\ points[i].date <= period_end}

\* sum(dp.co2_emissions for dp in filtered_points if dp.scope == scope and dp.co2_emissions)
ScopeTotal(points, filtered, scope) ==
    LET counted == {i \in filtered :
                       points[i].scope = scope /\ TruthyNumber(points[i].co2_emissions)}
    IN  SumSeq([i \in DOMAIN points |->
                   IF i \in counted THEN points[i].co2_emissions ELSE 0])

\* emissions_by_activity
EmissionsByActivity(points, filtered) ==
    LET counted == {i \in filtered : TruthyNumber(points[i].co2_emissions)}
    IN  [activity \in {points[i].activity_type : i \in counted} |->
            SumSeq([i \in DOMAIN points |->
                       IF i \in counted /\ points[i].activity_type = activity
                       THEN points[i].co2_emissions ELSE 0])]

\* (mutant of ChangePercentage) any previous total but zero is compared with
ChangePercentageNonZero(total_emissions, previous_period_total) ==
    IF TruthyNumber(previous_period_total)
    THEN Percent(total_emissions - previous_period_total, Abs(previous_period_total))
    ELSE NullFraction

\* change_percentage
ChangePercentage(total_emissions, previous_period_total) ==
    IF TruthyNumber(previous_period_total) /\ previous_period_total > 0
    THEN Percent(total_emissions - previous_period_total, previous_period_total)
    ELSE NullFraction

\* (mutant of VerifiedPercentage) the count is divided also when it is zero
VerifiedPercentageUnguarded(points, filtered) ==
    LET verified_count == Cardinality({i \in filtered : points[i].verified})
    IN  IF filtered # {} THEN Percent(verified_count, Cardinality(filtered))
        ELSE NullFraction

\* verified_percentage
VerifiedPercentage(points, filtered) ==
    LET verified_count == Cardinality({i \in filtered : points[i].verified})
    IN  IF filtered # {} THEN Percent(verified_count, Cardinality(filtered))
        ELSE Percent(0, 1)

\* generate_summary(data_points, company_id, period_start, period_end,
\* previous_period_total): the records after the call and the summary
GenerateSummary(table, limits, points, company_id, period_start, period_end, previous) ==
    LET filtered == FilteredPoints(points, company_id, period_start, period_end)
        calculated == [i \in DOMAIN points |->
                          IF i \in filtered
                          THEN CalculateForDataPoint(table, points[i])
                          ELSE points[i]]
        scope_1_total == ScopeTotal(calculated, filtered, "scope_1")
        scope_2_total == ScopeTotal(calculated, filtered, "scope_2")
        scope_3_total == ScopeTotal(calculated, filtered, "scope_3")
        total_emissions == scope_1_total + scope_2_total + scope_3_total
        compliance_status == CheckComplianceStatus(limits, scope_1_total, scope_2_total,
                                                   scope_3_total)
    IN  [points |-> calculated,
         summary |->
             IF compliance_status = "KeyError" THEN Raised("KeyError")
             ELSE
             [company_id |-> company_id,
              period_start |-> period_start,
              period_end |-> period_end,
              scope_1_total |-> scope_1_total,
              scope_2_total |-> scope_2_total,
              scope_3_total |-> scope_3_total,
              total_emissions |-> total_emissions,
              emissions_by_activity |-> EmissionsByActivity(calculated, filtered),
              previous_period_total |-> previous,
              change_percentage |->
                  ChangePercentage(total_emissions, previous),
              compliance_status |-> compliance_status,
              data_points_count |-> Cardinality(filtered),
              verified_data_percentage |-> VerifiedPercentage(calculated, filtered)]]

\* An EmissionDataPoint (amount > 0; emission_factor and co2_emissions are
\* optional).
DataPoint(activity, amount, unit, country, factor, co2) ==
    [activity_type |-> activity, amount |-> amount, unit |-> unit,
     country_code |-> country, emission_factor |-> factor, co2_emissions |-> co2]

\* 7 kg CO2e
SevenKg == 7 * Milli * Milli

DataPointShapes ==
    {DataPoint(a, q[1], q[2], c, f, e) :
        a \in {"electricity", "other"},
        q \in {<<1000, "kWh">>, <<1, "MWh">>},
        c \in {"SE", "XX"},
        f \in {NULL, 0, 2 * Milli},
        e \in {NULL, 0, SevenKg}}

\* An EmissionDataPoint with the fields generate_summary reads.
Record(dp, company_id, date, scope, verified) ==
    [activity_type |-> dp.activity_type, amount |-> dp.amount, unit |-> dp.unit,
     country_code |-> dp.country_code, emission_factor |-> dp.emission_factor,
     co2_emissions |-> dp.co2_emissions, company_id |-> company_id, date |-> date,
     scope |-> scope, verified |-> verified]

\* The spec's record: electricity, 1000 kWh, SE, nothing calculated yet.
ElectricityPoint == DataPoint("electricity", 1000, "kWh", "SE", NULL, NULL)

\* A record whose co2_emissions the caller has set.
PresetPoint == DataPoint("diesel", 1000, "l", "SE", NULL, SevenKg)

\* The dates of the records, in days.
Dates == 0 .. 2

\* The records of the summaries of the model.
RecordShapes ==
    {Record(ElectricityPoint, c, d, "scope_2", v) :
        c \in Companies, d \in Dates, v \in BOOLEAN}
    \cup {Record(PresetPoint, 1, d, sc, FALSE) :
              d \in Dates, sc \in {"scope_1", "scope_3"}}
    \cup {Record(PresetPoint, 2, 1, "scope_1", FALSE)}

\* The (period_start, period_end) arguments: two days, one day, no day.
Periods == {<<0, 1>>, <<1, 1>>, <<2, 1>>}

\* The previous_period_total arguments: absent, zero, negative, positive.
PreviousTotals == {NULL, 0, 0 - SevenKg, 13 * MicroKg}

\* The compliance sections of the config files of the model: none, and one
\* that sets the three thresholds.
ComplianceConfigs ==
    {NoConfig,
     [thresholds |->
         [scope_1_warning |-> 7, scope_2_warning |-> 13, scope_3_warning |-> 20]]}

\* Compliance sections that set the thresholds of some scopes only.
PartialComplianceConfigs ==
    {[thresholds |-> [scope_1_warning |-> 7]],
     [thresholds |-> [scope_2_warning |-> 13, scope_3_warning |-> 20]]}

\* The built-in thresholds, in kg CO2e per year (_load_thresholds).
DefaultThresholds ==
    [scope_1_warning |-> 100000, scope_2_warning |-> 50000, scope_3_warning |-> 200000]

\* _load_thresholds(config_path)
LoadThresholds(compliance) ==
    IF "thresholds" \in DOMAIN compliance
    THEN compliance.thresholds
    ELSE DefaultThresholds

\* The unit texts of the model: the aliases _convert_units names, spellings of
\* them in another case, with spaces or with periods, and an unknown unit.
UnitTexts ==
    {"kWh", "MWh", "GWh", "m3", "m³", "l", "liter", "Liter", "kg", "t", "tonne",
     "km", "m", "meter", "unknown_unit", "MWH", " mwh ", "M.W.h", "k Wh"}

\* The (amount, unit) arguments of the _convert_units calls of the model.
ConvertInputs ==
    {<<a, u>> : a \in {1, 5, 1000}, u \in UnitTexts \ {"GWh"}}
        \cup {<<1, "GWh">>, <<2, "GWh">>}

\* The (amount, unit) arguments of the calculate_emissions calls of the model.
EmissionInputs ==
    {<<1000, "kWh">>, <<1, "MWh">>, <<1000, "l">>, <<1, "tonne">>,
     <<5, "unknown_unit">>, <<1, " mwh ">>}

\* The arguments of the lookups of the model.
LookupActivities == {"electricity", "transport_freight", "hydrogen", "biogas", "unknown"}
LookupCountries == {"SE", "XX", "default", "truck"}
LookupSubTypes == {None, "", "truck", "air", "SE", "zzz"}

\* ------------------------------------------------------------ actions
\* A device or end_session stores an activity row.
InsertActivity(row) ==
    /\ result = NoResult
    /\ BagCardinality(sensors_activity) < MaxRows
    /\ sensors_activity' = sensors_activity (+) SetToBag({row})
    /\ UNCHANGED <<otherVars, sensors, result, calcVars, summaryVars, cacheVars>>

\* compute_sensor_emissions(client, company_id, start_iso, end_iso)
ComputeSensorEmissions(company_id, start_iso, end_iso, path) ==
    /\ result = NoResult
    /\ LET ss == CompanySensors(sensors, company_id)
       IN  IF ss = {}
           THEN result' = Reconcile(company_id, <<>>, <<>>, start_iso, end_iso, "none")
           ELSE \E activities \in SeqsOfBag(
                        Activities(sensors_activity, DeviceKeys(ss), start_iso, end_iso, path)) :
                    result' = Reconcile(company_id, SensorMap(ss), activities,
                                        start_iso, end_iso, path)
    /\ UNCHANGED <<otherVars, sensors, sensors_activity, calcVars, summaryVars, cacheVars>>

\* The caller takes the return value.
ReturnResult ==
    /\ result # NoResult
    /\ result' = NoResult
    /\ UNCHANGED <<otherVars, sensors, sensors_activity, calcVars, summaryVars, cacheVars>>

\* EmissionFactorDatabase(config_path)
InitRegistry ==
    /\ config \in CustomConfigs
    /\ emission_factors = LoadCustomFactors(DefaultFactors, config)

NoLookup == <<>>

NoSummary == <<>>

\* No generate_summary call has returned; the calculator has no config file.
SummaryIdle ==
    /\ thresholds = DefaultThresholds
    /\ summary = NoSummary

\* ------------------------------------------------------------ the factor cache
\* The keys of a list of (key, value) entries.
Keys(entries) == {entries[i][1] : i \in DOMAIN entries}

\* {normalize_unit(k): float(v) for k, v in data.items()}: the last entry of
\* a normalized key gives its value
NormalizedMapping(entries) ==
    [k \in {NormalizeUnit(key) : key \in Keys(entries)} |->
        LET last == CHOOSE i \in DOMAIN entries :
                        /\ NormalizeUnit(entries[i][1]) = k
                        /\ \A j \in DOMAIN entries :
                               NormalizeUnit(entries[j][1]) = k => j <= i
        IN  entries[last][2]]

\* load_cached_factors(): a missing file and a file json.load cannot parse
\* give {}
LoadCachedFactors(file) ==
    IF file.exists /\ file.complete THEN NormalizedMapping(file.entries) ELSE <<>>

\* get_factor_for_unit(unit)
GetFactorForUnit(file, unit) ==
    IF unit = "" THEN NULL
    ELSE LET mapping == LoadCachedFactors(file)
         IN  IF NormalizeUnit(unit) \in DOMAIN mapping
             THEN mapping[NormalizeUnit(unit)]
             ELSE NULL

\* for k, v in mapping.items(): combined[k] = v
RECURSIVE CombineLastWins(_, _)
CombineLastWins(combined, mapping) ==
    IF mapping = <<>> THEN combined
    ELSE CombineLastWins(
             IF Head(mapping)[1] \in Keys(combined)
             THEN [i \in DOMAIN combined |->
                      IF combined[i][1] = Head(mapping)[1] THEN Head(mapping)
                      ELSE combined[i]]
             ELSE Append(combined, Head(mapping)),
             Tail(mapping))

\* for k, v in mapping.items(): if k not in combined: combined[k] = v
RECURSIVE Combine(_, _)
Combine(combined, mapping) ==
    IF mapping = <<>> THEN combined
    ELSE Combine(IF Head(mapping)[1] \in Keys(combined)
                 THEN combined
                 ELSE Append(combined, Head(mapping)),
                 Tail(mapping))

\* What load_electricity_factors_from_api returns, in g CO2 per kWh: nothing
\* (every request failed), one country, two countries.
ApiMappings ==
    {<<>>, <<<<"SWE", 40>>>>, <<<<"SWE", 41>>, <<"NOR", 30>>>>}

\* What one turn of the loop over the sources gets: a mapping, or an
\* exception that the loop's except clause swallows.
FetchOutcomes ==
    {[raised |-> TRUE, mapping |-> <<>>]}
        \cup {[raised |-> FALSE, mapping |-> m] : m \in ApiMappings}

\* A cache file an earlier refresh wrote.
CachedFile ==
    [exists |-> TRUE, entries |-> <<<<"SWE", 45>>, <<"FIN", 93>>>>, complete |-> TRUE]

\* The file at CACHE_PATH does not exist.
NoFile == [exists |-> FALSE, entries |-> <<>>, complete |-> FALSE]

NoRefresh == [pc |-> "idle"]

NoRead == [pc |-> "none"]

\* No cache file, no refresh in progress, no read made.
CacheIdle ==
    /\ cache_file = NoFile
    /\ refresh = NoRefresh
    /\ observed = NoRead

\* ------------------------------------------------------------ EmissionPredictor
\* EmissionPredictor(model_type): nothing trained, no call made.
NewPredictor(model_type) ==
    [model_type |-> model_type, is_trained |-> FALSE, training_data |-> <<>>,
     ever_trained |-> FALSE, last |-> [call |-> "none"]]

\* The records prepare_data keeps: those with co2_emissions.
TrainingRecords(batch) ==
    SelectSeq(batch, LAMBDA dp : TruthyNumber(dp.co2_emissions))

\* df.groupby('ds')['y'].sum(): the emissions of each date
AggregateByDate(records) ==
    [ds \in {records[i].date : i \in DOMAIN records} |->
        SumSeq([i \in DOMAIN records |->
                   IF records[i].date = ds THEN records[i].co2_emissions ELSE 0])]

\* (mutant of Train) the predictor is marked as trained before the model is
\* fitted
TrainMarksFirst(p, batch, fit_ok) ==
    IF TrainingRecords(batch) = <<>>
    THEN [p EXCEPT !.last = [call |-> "train", batch |-> batch, outcome |-> "ValueError"]]
    ELSE [p EXCEPT !.training_data = AggregateByDate(TrainingRecords(batch)),
                   !.is_trained = TRUE,
                   !.ever_trained = @ \/ fit_ok,
                   !.last = [call |-> "train", batch |-> batch,
                             outcome |-> IF fit_ok THEN "trained" ELSE "fit failed"]]

\* train(data_points): prepare_data raises for a batch without emissions;
\* fit_ok tells whether _train_prophet / _train_fallback returns or raises
Train(p, batch, fit_ok) ==
    IF TrainingRecords(batch) = <<>>
    THEN [p EXCEPT !.last = [call |-> "train", batch |-> batch, outcome |-> "ValueError"]]
    ELSE [p EXCEPT !.training_data = AggregateByDate(TrainingRecords(batch)),
                   !.is_trained = @ \/ fit_ok,
                   !.ever_trained = @ \/ fit_ok,
                   !.last = [call |-> "train", batch |-> batch,
                             outcome |-> IF fit_ok THEN "trained" ELSE "fit failed"]]

\* predict_future(months, company_id): the forecast itself is left out, the
\* result tells how many dates the model was trained on
PredictFuture(p) ==
    IF ~p.is_trained
    THEN [p EXCEPT !.last = [call |-> "predict_future", outcome |-> "ValueError"]]
    ELSE [p EXCEPT !.last = [call |-> "predict_future", outcome |-> "PredictionResult",
                             training_data_points |->
                                 Cardinality(DOMAIN p.training_data)]]

\* The records of the training batches of the model: with emissions, with
\* emissions of 0 and without.
TrainingShapes ==
    {Record(DataPoint("electricity", 1000, "kWh", "SE", NULL, e), 1, d, "scope_2", FALSE) :
        e \in {NULL, 0, SevenKg}, d \in {0, 1}}

\* The batches: up to MaxPoints records.
TrainingBatches ==
    UNION {[1 .. n -> TrainingShapes] : n \in 0 .. MaxPoints}

\* ------------------------------------------------------------ sessions
\* Nothing started, nothing inserted by end_session, no call made.
NoSessionLog ==
    [started |-> 0, inserted |-> 0, overlapped |-> FALSE, last |-> "none"]

\* No sensor of the table has a session running; no end_session request is
\* in progress.
SessionsIdle ==
    /\ session_start = [id \in {s.id : s \in InitialSensors} |-> NULL]
    /\ end_requests = <<>>
    /\ session_log = NoSessionLog

\* table('sensors').select('*').eq('device_id', device_id)
SensorsByDevice(table, device_id) == {s \in table : s.device_id = device_id}

\* select('*'): the row with its session_start column
SelectAll(s, started) == [id |-> s.id, session_start |-> started]

\* select('id'): the row has the id column and no other
SelectId(s, started) == [id |-> s.id]

\* row.get(column): None for a column the row does not have
Get(row, column) == IF column \in DOMAIN row THEN row[column] ELSE NULL

\* The row end_session inserts: keyed by the canonical id.
EndedSession(sensor_id, startTime, now) ==
    Row(sensor_id, NULL, now - startTime, startTime, now, NULL, "")

\* The devices of the session requests (109 is no sensor's) and the rows
\* of sensor 1 and sensor 2 the activity table gets.
SessionDevices == {101, 109}
SessionActivityRows ==
    {Row(1, NULL, 1, 0, 1, NULL, ""), Row(101, NULL, NULL, 0, 1, NULL, ""),
     Row(102, NULL, NULL, 0, 1, NULL, "")}

\* No predictor call, no session, no end_session request.
OtherIdle ==
    /\ predictor = NewPredictor("prophet")
    /\ SessionsIdle

CalcIdle ==
    /\ config = NoConfig
    /\ emission_factors = DefaultFactors
    /\ data_points = <<>>
    /\ lookup = NoLookup

Init ==
    /\ sensors = InitialSensors
    /\ sensors_activity = EmptyBag
    /\ result = NoResult
    /\ CalcIdle
    /\ SummaryIdle
    /\ CacheIdle
    /\ OtherIdle

Next ==
    \/ \E row \in RowShapes : InsertActivity(row)
    \/ \E company_id \in Companies, w \in Windows, path \in Paths :
           ComputeSensorEmissions(company_id, w[1], w[2], path)
    \/ ReturnResult

Spec == Init /\ [][Next]_vars

InitSensors ==
    /\ sensors = InitialSensors
    /\ sensors_activity = EmptyBag
    /\ result = NoResult

\* --- the factor registry
\* emission_db.get_emission_factor(activity_type, country_code, sub_type)
LookupFactor(activity_type, country_code, sub_type) ==
    /\ lookup' = [activity_type |-> activity_type, country_code |-> country_code,
                  sub_type |-> sub_type,
                  factor |-> GetEmissionFactor(emission_factors, activity_type,
                                               country_code, sub_type)]
    /\ UNCHANGED <<otherVars, sensorVars, summaryVars, cacheVars, config, emission_factors, data_points>>

InitFactors ==
    /\ InitSensors
    /\ InitRegistry
    /\ data_points = <<>>
    /\ lookup = NoLookup
    /\ SummaryIdle
    /\ CacheIdle
    /\ OtherIdle

NextFactors ==
    \E a \in LookupActivities, c \in LookupCountries, st \in LookupSubTypes :
        LookupFactor(a, c, st)

SpecFactors == InitFactors /\ [][NextFactors]_vars

\* --- the calculator
\* A caller builds an EmissionDataPoint.
AddDataPoint(dp) ==
    /\ Len(data_points) < MaxPoints
    /\ data_points' = Append(data_points, dp)
    /\ UNCHANGED <<otherVars, sensorVars, summaryVars, cacheVars, config, emission_factors, lookup>>

\* calculator.calculate_for_data_point(data_points[i])
CalculateOne(i) ==
    /\ data_points' = [data_points EXCEPT ![i] =
                           CalculateForDataPoint(emission_factors, data_points[i])]
    /\ UNCHANGED <<otherVars, sensorVars, summaryVars, cacheVars, config, emission_factors, lookup>>

\* calculator.calculate_bulk(data_points)
CalculateAll ==
    /\ data_points' = CalculateBulk(emission_factors, data_points)
    /\ UNCHANGED <<otherVars, sensorVars, summaryVars, cacheVars, config, emission_factors, lookup>>

InitCalculator ==
    /\ InitSensors
    /\ InitRegistry
    /\ data_points = <<>>
    /\ lookup = NoLookup
    /\ SummaryIdle
    /\ CacheIdle
    /\ OtherIdle

NextCalc ==
    \/ \E dp \in DataPointShapes : AddDataPoint(dp)
    \/ \E i \in DOMAIN data_points : CalculateOne(i)
    \/ CalculateAll

SpecCalc == InitCalculator /\ [][NextCalc]_vars

\* --- summaries
\* A caller builds an EmissionDataPoint for a summary.
AddRecord(dp) ==
    /\ summary = NoSummary
    /\ Len(data_points) < MaxPoints
    /\ data_points' = Append(data_points, dp)
    /\ UNCHANGED <<otherVars, sensorVars, cacheVars, config, emission_factors, lookup,
                   thresholds, summary>>

\* calculator.generate_summary(data_points, company_id, period_start,
\* period_end, previous_period_total)
GenerateSummaryCall(company_id, period_start, period_end, previous_period_total) ==
    /\ summary = NoSummary
    /\ LET out == GenerateSummary(emission_factors, thresholds, data_points,
                       company_id, period_start, period_end, previous_period_total)
       IN  /\ data_points' = out.points
           /\ summary' = out.summary
    /\ UNCHANGED <<otherVars, sensorVars, cacheVars, config, emission_factors, lookup, thresholds>>

\* The caller takes the summary.
TakeSummary ==
    /\ summary # NoSummary
    /\ summary' = NoSummary
    /\ UNCHANGED <<otherVars, sensorVars, cacheVars, calcVars, thresholds>>

\* CarbonCalculator(config_path), its config file without an
\* emission_factors section
InitSummary ==
    /\ InitSensors
    /\ CacheIdle
    /\ config = NoConfig
    /\ emission_factors = LoadCustomFactors(DefaultFactors, config)
    /\ thresholds \in {LoadThresholds(c) : c \in ComplianceConfigs}
    /\ data_points = <<>>
    /\ lookup = NoLookup
    /\ summary = NoSummary
    /\ OtherIdle

\* CarbonCalculator(config_path), the compliance section of its config file
\* complete, partial or missing
InitThresholds ==
    /\ InitSensors
    /\ CacheIdle
    /\ config = NoConfig
    /\ emission_factors = LoadCustomFactors(DefaultFactors, config)
    /\ thresholds \in {LoadThresholds(c) :
                           c \in ComplianceConfigs \cup PartialComplianceConfigs}
    /\ data_points = <<>>
    /\ lookup = NoLookup
    /\ summary = NoSummary
    /\ OtherIdle

NextSummary ==
    \/ \E dp \in RecordShapes : AddRecord(dp)
    \/ \E p \in Periods, previous \in PreviousTotals :
           GenerateSummaryCall(1, p[1], p[2], previous)
    \/ TakeSummary

SpecSummary == InitSummary /\ [][NextSummary]_vars

SpecThresholds == InitThresholds /\ [][NextSummary]_vars

\* --- the factor cache
\* refresh_cached_factors() starts: with no source it returns the cache as
\* it is, with sources it goes on to fetch.
RefreshStart(sources) ==
    /\ refresh = NoRefresh
    /\ refresh' =
           IF sources = 0
           THEN [pc |-> "returned", before |-> LoadCachedFactors(cache_file),
                 configured |-> 0, fetched |-> <<>>,
                 sources |-> 0, combined |-> <<>>, todo |-> <<>>,
                 returned |-> LoadCachedFactors(cache_file)]
           ELSE [pc |-> "fetching", before |-> LoadCachedFactors(cache_file),
                 configured |-> sources, fetched |-> <<>>,
                 sources |-> sources, combined |-> <<>>, todo |-> <<>>,
                 returned |-> <<>>]
    /\ UNCHANGED <<otherVars, sensorVars, calcVars, summaryVars, cache_file, observed>>

\* One turn of the loop over the sources: the keys not yet in `combined`
\* are added; a turn whose fetch raised adds nothing and the loop goes on.
FetchSource(outcome) ==
    /\ refresh.pc = "fetching"
    /\ refresh.sources > 0
    /\ refresh' = [refresh EXCEPT !.sources = @ - 1,
                                  !.fetched = Append(@, outcome),
                                  !.combined = IF outcome.raised THEN @
                                               ELSE Combine(@, outcome.mapping)]
    /\ UNCHANGED <<otherVars, sensorVars, calcVars, summaryVars, cache_file, observed>>

\* The loop is over and save_cached_factors is called whatever was combined.
OpenCacheAlways ==
    /\ refresh.pc = "fetching"
    /\ refresh.sources = 0
    /\ cache_file' = [exists |-> TRUE, entries |-> <<>>, complete |-> FALSE]
    /\ refresh' = [refresh EXCEPT !.pc = "writing", !.todo = refresh.combined]
    /\ UNCHANGED <<otherVars, sensorVars, calcVars, summaryVars, observed>>

\* The loop is over.  save_cached_factors opens the file for writing, which
\* empties it; with nothing combined the file is not touched.
OpenCache ==
    /\ refresh.pc = "fetching"
    /\ refresh.sources = 0
    /\ IF refresh.combined # <<>>
       THEN /\ cache_file' = [exists |-> TRUE, entries |-> <<>>, complete |-> FALSE]
            /\ refresh' = [refresh EXCEPT !.pc = "writing", !.todo = refresh.combined]
       ELSE /\ refresh' = [refresh EXCEPT !.pc = "loading"]
            /\ UNCHANGED cache_file
    /\ UNCHANGED <<otherVars, sensorVars, calcVars, summaryVars, observed>>

\* json.dump writes the next entry.
WriteEntry ==
    /\ refresh.pc = "writing"
    /\ refresh.todo # <<>>
    /\ cache_file' = [cache_file EXCEPT !.entries = Append(@, Head(refresh.todo))]
    /\ refresh' = [refresh EXCEPT !.todo = Tail(@)]
    /\ UNCHANGED <<otherVars, sensorVars, calcVars, summaryVars, observed>>

\* json.dump writes the closing brace and the file is closed.
CloseCache ==
    /\ refresh.pc = "writing"
    /\ refresh.todo = <<>>
    /\ cache_file' = [cache_file EXCEPT !.complete = TRUE]
    /\ refresh' = [refresh EXCEPT !.pc = "loading"]
    /\ UNCHANGED <<otherVars, sensorVars, calcVars, summaryVars, observed>>

\* return load_cached_factors()
RefreshLoad ==
    /\ refresh.pc = "loading"
    /\ refresh' = [refresh EXCEPT !.pc = "returned",
                                  !.returned = LoadCachedFactors(cache_file)]
    /\ UNCHANGED <<otherVars, sensorVars, calcVars, summaryVars, cache_file, observed>>

\* The caller takes the mapping.
RefreshDone ==
    /\ refresh.pc = "returned"
    /\ refresh' = NoRefresh
    /\ UNCHANGED <<otherVars, sensorVars, calcVars, summaryVars, cache_file, observed>>

\* Where the refresh is when another thread reads the file.
RefreshSeen(r) ==
    IF r.pc = "idle" THEN r
    ELSE [pc |-> r.pc, before |-> r.before, combined |-> r.combined]

\* Another thread calls load_cached_factors().
ReadCache ==
    /\ observed' = [pc |-> "load_cached_factors", unit |-> "", factor |-> NULL,
                    mapping |-> LoadCachedFactors(cache_file),
                    refresher |-> RefreshSeen(refresh)]
    /\ UNCHANGED <<otherVars, sensorVars, calcVars, summaryVars, cache_file, refresh>>

\* Another thread calls get_factor_for_unit(unit).
GetFactorForUnitCall(unit) ==
    /\ observed' = [pc |-> "get_factor_for_unit", unit |-> unit,
                    factor |-> GetFactorForUnit(cache_file, unit),
                    mapping |-> IF unit = "" THEN <<>> ELSE LoadCachedFactors(cache_file),
                    refresher |-> RefreshSeen(refresh)]
    /\ UNCHANGED <<otherVars, sensorVars, calcVars, summaryVars, cache_file, refresh>>

\* The cache file when the process starts: none, or one an earlier refresh
\* wrote.
InitCache ==
    /\ InitSensors
    /\ CalcIdle
    /\ SummaryIdle
    /\ cache_file \in {NoFile, CachedFile}
    /\ refresh = NoRefresh
    /\ observed = NoRead
    /\ OtherIdle

NextCache ==
    \/ \E sources \in 0 .. MaxSources : RefreshStart(sources)
    \/ \E outcome \in FetchOutcomes : FetchSource(outcome)
    \/ OpenCache
    \/ WriteEntry
    \/ CloseCache
    \/ RefreshLoad
    \/ RefreshDone
    \/ ReadCache
    \/ \E unit \in {"", "SWE", "fin"} : GetFactorForUnitCall(unit)

SpecCache == InitCache /\ [][NextCache]_vars

\* --- the predictor
\* predictor.train(batch)
TrainCall(batch, fit_ok) ==
    /\ predictor' = Train(predictor, batch, fit_ok)
    /\ UNCHANGED <<sensorVars, calcVars, summaryVars, cacheVars, sessionVars>>

\* predictor.predict_future()
PredictFutureCall ==
    /\ predictor' = PredictFuture(predictor)
    /\ UNCHANGED <<sensorVars, calcVars, summaryVars, cacheVars, sessionVars>>

InitPredictor ==
    /\ InitSensors
    /\ CalcIdle
    /\ SummaryIdle
    /\ CacheIdle
    /\ predictor \in {NewPredictor(t) : t \in {"prophet", "fallback"}}
    /\ SessionsIdle

NextPredictor ==
    \/ \E batch \in TrainingBatches, fit_ok \in BOOLEAN : TrainCall(batch, fit_ok)
    \/ PredictFutureCall

SpecPredictor == InitPredictor /\ [][NextPredictor]_vars

\* --- sessions and the removal of a sensor
\* POST /api/session/start: the sensor's session_start is set to now; the
\* update can raise.
StartSession(device_id, now, update_ok) ==
    /\ session_log.started < MaxSessions
    /\ LET sensor_rows == SensorsByDevice(sensors, device_id)
       IN  IF sensor_rows = {}
           THEN /\ session_log' = [session_log EXCEPT !.last = "Sensor not found"]
                /\ UNCHANGED session_start
           ELSE LET sensor_id == Get(SelectId(CHOOSE s \in sensor_rows : TRUE, NULL), "id")
                IN  IF update_ok
                    THEN /\ session_start' = [session_start EXCEPT ![sensor_id] = now]
                         /\ session_log' = [session_log EXCEPT !.started = @ + 1,
                                                               !.last = "started"]
                    ELSE /\ session_log' =
                                [session_log EXCEPT !.last = "Failed to start session"]
                         /\ UNCHANGED session_start
    /\ UNCHANGED <<predictor, sensorVars, calcVars, summaryVars, cacheVars, end_requests>>

\* POST /api/session/end, up to the read of the sensor row.  The handler is
\* a plain def, so several requests run at once, each on its own thread.
EndSessionRead(device_id) ==
    /\ Len(end_requests) < MaxSessions
    /\ LET sensor_rows == SensorsByDevice(sensors, device_id)
       IN  IF sensor_rows = {}
           THEN /\ session_log' = [session_log EXCEPT !.last = "Sensor not found"]
                /\ UNCHANGED end_requests
           ELSE LET s == CHOOSE x \in sensor_rows : TRUE
                    row == SelectId(s, session_start[s.id])
                IN  /\ end_requests' =
                           Append(end_requests,
                                  [sensor_id |-> Get(row, "id"),
                                   startTime |-> Get(row, "session_start")])
                    /\ session_log' =
                           [session_log EXCEPT !.overlapped = @ \/ end_requests # <<>>]
    /\ UNCHANGED <<predictor, sensorVars, calcVars, summaryVars, cacheVars, session_start>>

\* The rest of end_session for request r: without a start time it raises,
\* with one it inserts the activity row and clears session_start.
EndSessionFinish(r, now) ==
    /\ r \in DOMAIN end_requests
    /\ LET req == end_requests[r]
       IN  IF req.startTime = NULL
           THEN /\ session_log' =
                       [session_log EXCEPT !.last = "No active session to end"]
                /\ UNCHANGED <<sensors_activity, session_start>>
           ELSE /\ sensors_activity' = sensors_activity (+)
                       SetToBag({EndedSession(req.sensor_id, req.startTime, now)})
                /\ session_start' =
                       [id \in DOMAIN session_start |->
                           IF id = req.sensor_id THEN NULL ELSE session_start[id]]
                /\ session_log' = [session_log EXCEPT !.inserted = @ + 1,
                                                      !.last = "ended"]
    /\ end_requests' = SubSeq(end_requests, 1, r - 1)
                           \o SubSeq(end_requests, r + 1, Len(end_requests))
    /\ UNCHANGED <<predictor, sensors, result, calcVars, summaryVars, cacheVars>>

\* POST /api/sensors/remove: the activity rows whose device_id is the
\* external id are deleted (best effort), then the sensor.
RemoveSensor(device_id, company_id, activity_ok) ==
    /\ LET rows == {s \in SensorsByDevice(sensors, device_id) :
                        company_id # NULL => s.company_id = company_id}
       IN  IF rows = {}
           THEN /\ session_log' = [session_log EXCEPT !.last = "Sensor not found"]
                /\ UNCHANGED <<sensors, sensors_activity, session_start>>
           ELSE /\ sensors_activity' =
                       IF activity_ok
                       THEN BagSelect(sensors_activity,
                                {a \in DOMAIN sensors_activity : a.device_id # device_id})
                       ELSE sensors_activity
                /\ sensors' = sensors \ rows
                /\ session_start' =
                       [id \in {s.id : s \in sensors \ rows} |-> session_start[id]]
                /\ session_log' =
                       [session_log EXCEPT !.last =
                           IF activity_ok THEN "removed" ELSE "removed, activity kept"]
    /\ UNCHANGED <<predictor, result, calcVars, summaryVars, cacheVars, end_requests>>

InitSessions ==
    /\ InitSensors
    /\ CalcIdle
    /\ SummaryIdle
    /\ CacheIdle
    /\ OtherIdle

NextSessions ==
    \/ \E row \in SessionActivityRows : InsertActivity(row)
    \/ \E device_id \in SessionDevices, now \in Times, update_ok \in BOOLEAN :
           StartSession(device_id, now, update_ok)
    \/ \E device_id \in SessionDevices : EndSessionRead(device_id)
    \/ \E r \in 1 .. MaxSessions, now \in Times : EndSessionFinish(r, now)
    \/ \E device_id \in SessionDevices, company_id \in {NULL} \cup Companies,
           activity_ok \in BOOLEAN :
           RemoveSensor(device_id, company_id, activity_ok)

SpecSessions == InitSessions /\ [][NextSessions]_vars

\* --- unit conversion and calculate_emissions
\* calculator._convert_units(amount, unit, activity_type)
ConvertUnitsCall(amount, unit) ==
    /\ lookup' = [call |-> "_convert_units", amount |-> amount, unit |-> unit,
                  converted |-> ConvertUnits(amount, unit)]
    /\ UNCHANGED <<otherVars, sensorVars, summaryVars, cacheVars, config, emission_factors, data_points>>

\* calculator.calculate_emissions(activity_type, amount, unit, country_code, sub_type)
CalculateEmissionsCall(activity_type, amount, unit, country_code, sub_type) ==
    /\ lookup' = [call |-> "calculate_emissions", activity_type |-> activity_type,
                  amount |-> amount, unit |-> unit, country_code |-> country_code,
                  sub_type |-> sub_type,
                  emissions |-> CalculateEmissions(emission_factors, activity_type,
                                    amount, unit, country_code, sub_type)]
    /\ UNCHANGED <<otherVars, sensorVars, summaryVars, cacheVars, config, emission_factors, data_points>>

NextEmissions ==
    \/ \E q \in ConvertInputs : ConvertUnitsCall(q[1], q[2])
    \/ \E a \in {"electricity", "transport_freight", "unknown"}, q \in EmissionInputs,
          c \in {"SE", "XX"}, st \in {None, "truck"} :
           CalculateEmissionsCall(a, q[1], q[2], c, st)

SpecEmissions == InitCalculator /\ [][NextEmissions]_vars

\* ------------------------------------------------------------ claims: compute_sensor_emissions
HasResult == result # NoResult

\* The sum of the values of a function with a finite domain.
RECURSIVE SumFun(_)
SumFun(F) ==
    IF DOMAIN F = {} THEN 0
    ELSE LET r == CHOOSE x \in DOMAIN F : TRUE
         IN  F[r] + SumFun([x \in DOMAIN F \ {r} |-> F[x]])

\* The sum of f over the rows of bag B, each copy counted.
BagSum(B, f) == SumFun([r \in DOMAIN B |-> B[r] * f[r]])

SensorOfEntry(i) == CHOOSE s \in sensors : s.id = result.summaries[i].sensor_id

EntriesOf(s) == {i \in DOMAIN result.summaries : result.summaries[i].sensor_id = s.id}

\* The rows of bag B that name sensor s, by either identifier.
RowsNaming(B, s) == BagSelect(B, {a \in DOMAIN B : a.device_id \in {s.id, s.device_id}})

\* C1: rows that name a sensor by its canonical id and rows that name it by
\* its external device id are grouped together: the result never has two
\* entries for one sensor, and when rows of the sensor took part it has exactly
\* one, whose group is all of them, whichever identifier they carry.
C1_OneEntryPerSensor ==
    HasResult =>
        \A s \in CompanySensors(sensors, result.company_id) :
            /\ Cardinality(EntriesOf(s)) <= 1
            /\ RowsNaming(result.activities, s) # EmptyBag =>
                   /\ Cardinality(EntriesOf(s)) = 1
                   /\ \A i \in EntriesOf(s) :
                          result.locals[i].acts = RowsNaming(result.activities, s)

\* A result whose entry for sensor 1 groups a row keyed 1 and a row keyed 101.
C1_Witness ==
    /\ HasResult
    /\ \E i \in DOMAIN result.summaries :
           /\ result.summaries[i].sensor_id = 1
           /\ \E a, b \in DOMAIN result.locals[i].acts :
                  a.device_id = 1 /\ b.device_id = 101

\* The hours of a row's interval that lie inside the window.
InWindowHours(a, start_iso, end_iso) ==
    Max(0, Min(a.session_end, end_iso) - Max(a.session_start, start_iso))

ValidInterval(a) ==
    a.session_start # NULL /\ a.session_end # NULL /\ a.session_start < a.session_end

\* C2: a sensor whose energy comes from duration rows is credited, for each
\* row, with the hours of the row's interval that lie inside the window only,
\* also when the row carries an hours field.
C2_DurationClampedToWindow ==
    HasResult =>
        \A i \in DOMAIN result.locals :
            LET acts == result.locals[i].acts
                durations == BagSelect(acts, {a \in DOMAIN acts : IsDurationAct(a)})
            IN  (/\ BagSelect(acts, {a \in DOMAIN acts : HasExplicit(a)}) = EmptyBag
                 /\ durations # EmptyBag
                 /\ \A a \in DOMAIN durations : ValidInterval(a))
                => result.summaries[i].on_hours =
                       BagSum(durations,
                              [a \in DOMAIN durations |->
                                  InWindowHours(a, result.start_iso, result.end_iso)])

DurationHoursOr0(a) ==
    LET h == DurationHours(a, result.start_iso, result.end_iso)
    IN  IF h = NULL THEN 0 ELSE h

C4_OnlyOverlappingRows ==
    HasResult =>
        \A a \in DOMAIN result.activities :
            /\ a.session_start # NULL /\ a.session_start < result.end_iso
            /\ a.session_end # NULL /\ a.session_end >= result.start_iso

\* The fallback path took a row that starts before the window and left out a
\* row of a known sensor.
C4_Witness ==
    /\ HasResult
    /\ result.path = "py"
    /\ \E a \in DOMAIN result.activities : a.session_start < result.start_iso
    /\ \E a \in DOMAIN sensors_activity :
           a.device_id \in {1, 101, 2, 102} /\ a \notin DOMAIN result.activities

\* A row that is a state change and nothing else, inside the window.
PureEventIn(a, start_iso, end_iso) ==
    /\ a.energy_kwh = NULL /\ a.hours = NULL
    /\ a.session_start = NULL /\ a.session_end = NULL
    /\ StateOf(a) \in {"ON", "OFF"}
    /\ ParseIso(a.timestamp) # NULL
    /\ start_iso <= a.timestamp /\ a.timestamp <= end_iso

\* C5: a sensor with positive rated power whose rows are ON/OFF events of the
\* window only gets an entry whose on_hours is the time from each ON to its
\* OFF (an open run closed at the window end) and whose energy is on_hours
\* times the rated power.
C5_EventsReconstructed ==
    (HasResult /\ result.path \in {"db", "py"}) =>
        \A s \in CompanySensors(sensors, result.company_id) :
            LET rows == RowsNaming(sensors_activity, s)
                power_kw == FloatOr0(s.power_kW)
            IN  (/\ power_kw > 0
                 /\ rows # EmptyBag
                 /\ \A a \in DOMAIN rows : PureEventIn(a, result.start_iso, result.end_iso))
                => \E q \in SeqsOfBag(rows) :
                       LET e == EventHours(q, result.start_iso, result.end_iso)
                       IN  e.ev_hours > 0 =>
                               \E i \in EntriesOf(s) :
                                   /\ result.summaries[i].on_hours = e.ev_hours
                                   /\ result.summaries[i].energy_kwh =
                                          Round6Energy(e.ev_hours * power_kw)

\* A row the reconciliation can use for a sensor rated power_kw.
Usable(a, power_kw) ==
    \/ HasExplicit(a) /\ Float(a.energy_kwh) # NULL
    \/ IsDurationAct(a) /\ DurationHours(a, result.start_iso, result.end_iso) # NULL
    \/ IsEventAct(a) /\ ParseIso(a.timestamp) # NULL /\ power_kw > 0

\* C6: every entry of the summaries belongs to a sensor with at least one
\* usable row in the window.
C6_NoEntryWithoutUsableRow ==
    HasResult =>
        \A i \in DOMAIN result.summaries :
            \E a \in DOMAIN result.locals[i].acts :
                Usable(a, FloatOr0(SensorOfEntry(i).power_kW))

\* A row that parses into no energy value, no interval and no event.
Unparseable(a) ==
    \/ HasExplicit(a) /\ Float(a.energy_kwh) = NULL
    \/ IsDurationAct(a) /\ Float(a.hours) = NULL
           /\ ~(ParseIso(Ss(a)) # NULL /\ ParseIso(Se(a)) # NULL /\ ParseIso(Se(a)) > ParseIso(Ss(a)))
    \/ IsEventAct(a) /\ ParseIso(a.timestamp) = NULL

\* C7: an unparseable row is skipped: the total and the summaries are what
\* they would be with the row taken out of the table.
C7_BadRowSkipped ==
    (HasResult /\ result.path \in {"db", "py"}) =>
        \A r \in DOMAIN sensors_activity :
            Unparseable(r) =>
                LET ss == CompanySensors(sensors, result.company_id)
                    without == sensors_activity (-) SetToBag({r})
                IN  \E q \in SeqsOfBag(Activities(without, DeviceKeys(ss),
                                       result.start_iso, result.end_iso, result.path)) :
                        LET other == Reconcile(result.company_id, SensorMap(ss), q,
                                         result.start_iso, result.end_iso, result.path)
                        IN  /\ other.total = result.total
                            /\ Range(other.summaries) = Range(result.summaries)

FactorOfEntry(i) == FloatOr0(SensorOfEntry(i).emission_factor)

\* C8 as stated: in the result, emissions_kg = energy_kwh * emission_factor
\* for every sensor, and the total is the sum of the emissions_kg.
C8_EmissionsOfReported ==
    HasResult =>
        /\ \A i \in DOMAIN result.summaries :
               result.summaries[i].emissions_kg =
                   result.summaries[i].energy_kwh * FactorOfEntry(i)
        /\ result.total =
               SumSeq([i \in DOMAIN result.summaries |-> result.summaries[i].emissions_kg])

\* C8 amended: emissions_kg is the unrounded energy times the sensor's factor,
\* rounded to 6 decimals (as energy_kwh is the unrounded energy rounded to 6
\* decimals); the total is the sum of the unrounded products, rounded to 6
\* decimals, each sensor counted once.
C8_EmissionsRounded ==
    HasResult =>
        /\ \A i \in DOMAIN result.summaries :
               /\ result.summaries[i].energy_kwh = Round6Energy(result.locals[i].energy_kwh)
               /\ result.summaries[i].emissions_kg =
                      Round6Emissions(result.locals[i].energy_kwh * FactorOfEntry(i))
        /\ result.total =
               Round6Emissions(SumSeq([i \in DOMAIN result.locals |->
                                   result.locals[i].energy_kwh * FactorOfEntry(i)]))
        /\ \A i, j \in DOMAIN result.summaries :
               result.summaries[i].sensor_id = result.summaries[j].sensor_id => i = j

\* A result with two sensors, both with emissions.
C8_Witness ==
    /\ HasResult
    /\ Len(result.summaries) = 2
    /\ \A i \in DOMAIN result.summaries : result.summaries[i].emissions_kg > 0

\* ------------------------------------------------------------ claims: the factor registry
\* C9: get_emission_factor returns the sub-type's factor when the sub-type is
\* a key of the activity's table, whatever the country; otherwise the
\* country's factor when the country is a key; otherwise the activity's
\* 'default' factor; and 1.0 when the activity is not in the table.
C9_LookupOrder ==
    lookup # NoLookup =>
        LET a == lookup.activity_type
            c == lookup.country_code
            st == lookup.sub_type
        IN  IF a \notin DOMAIN emission_factors THEN lookup.factor = FallbackFactor
            ELSE IF st \in DOMAIN emission_factors[a]
            THEN lookup.factor = emission_factors[a][st]
            ELSE IF c \in DOMAIN emission_factors[a]
            THEN lookup.factor = emission_factors[a][c]
            ELSE "default" \in DOMAIN emission_factors[a] =>
                     lookup.factor = emission_factors[a]["default"]

\* A lookup with a known sub-type and a known country whose factors differ.
C9_Witness ==
    /\ lookup # NoLookup
    /\ lookup.activity_type = "transport_freight"
    /\ lookup.sub_type = "air"
    /\ lookup.country_code = "truck"
    /\ lookup.factor = 602

\* ------------------------------------------------------------ claims: the calculator
\* C10: a co2_emissions or emission_factor value that is set on a record,
\* zero included, is never changed.
C10_SetValuesKept ==
    [][\A i \in DOMAIN data_points :
           /\ i \in DOMAIN data_points'
           /\ data_points[i].co2_emissions # NULL =>
                  data_points'[i].co2_emissions = data_points[i].co2_emissions
           /\ data_points[i].emission_factor # NULL =>
                  data_points'[i].emission_factor = data_points[i].emission_factor]_vars

\* ------------------------------------------------------------ claims: unit conversion
IsConvertCall == lookup # NoLookup /\ lookup.call = "_convert_units"

\* The multipliers of the recognized units, in thousandths.
UnitMultiplier ==
    [u \in {"kWh", "MWh", "GWh", "m3", "liter", "kg", "tonne", "km", "meter"} |->
        CASE u = "MWh" -> 1000000
          [] u = "GWh" -> 1000000000
          [] u = "tonne" -> 1000000
          [] u \in {"liter", "meter"} -> 1
          [] OTHER -> 1000]

\* C12: _convert_units multiplies the amount of a recognized unit by the
\* unit's multiplier (kWh, m3, kg, km x1; MWh, tonne x1000; GWh x1000000;
\* liter, meter /1000) and returns the amount of an unknown unit unchanged:
\* 1000 l give 1, 1 MWh gives 1000 and 5 unknown_unit give 5.
C12_UnitMultipliers ==
    IsConvertCall =>
        /\ lookup.unit \in DOMAIN UnitMultiplier =>
               lookup.converted = lookup.amount * UnitMultiplier[lookup.unit]
        /\ lookup.unit = "unknown_unit" => lookup.converted = lookup.amount * Milli
        /\ (lookup.amount = 1000 /\ lookup.unit = "l") => lookup.converted = 1 * Milli
        /\ (lookup.amount = 1 /\ lookup.unit = "MWh") => lookup.converted = 1000 * Milli
        /\ (lookup.amount = 5 /\ lookup.unit = "unknown_unit") =>
               lookup.converted = 5 * Milli

\* 1000 litres have been converted to 1 cubic metre.
C12_Witness ==
    /\ IsConvertCall
    /\ lookup.amount = 1000
    /\ lookup.unit = "l"
    /\ lookup.converted = 1 * Milli

\* The aliases _convert_units names.
RecognizedAliases ==
    {"kwh", "kilowatt-hour", "mwh", "megawatt-hour", "gwh", "gigawatt-hour",
     "m3", "m³", "cubic meter", "l", "liter", "litre", "kg", "kilogram",
     "t", "ton", "tonne", "km", "kilometer", "m", "meter"}

\* C13: a spelling of a recognized alias in another case, with spaces or with
\* periods is converted with the multiplier of the plain alias.
C13_DecoratedSpellings ==
    (IsConvertCall /\ NormalizeUnit(lookup.unit) \in RecognizedAliases) =>
        lookup.converted = ConvertUnits(lookup.amount, NormalizeUnit(lookup.unit))

\* ------------------------------------------------------------ claims: calculate_emissions
IsEmissionsCall == lookup # NoLookup /\ lookup.call = "calculate_emissions"

\* The spec's record in scope 2 of company 1 on day 1.
ExampleRecord == Record(ElectricityPoint, 1, 1, "scope_2", FALSE)

\* C11: calculate_emissions returns the converted amount times the factor
\* of the lookup; 1000 kWh of electricity in SE give 13.0 kg with the
\* built-in table, and 13.0 kg as scope_2_total of the summary of the
\* record's period.
C11_EmissionsAreAmountTimesFactor ==
    /\ IsEmissionsCall =>
           /\ lookup.emissions =
                  ConvertUnits(lookup.amount, lookup.unit)
                      * GetEmissionFactor(emission_factors, lookup.activity_type,
                                          lookup.country_code, lookup.sub_type)
           /\ (/\ config = NoConfig
               /\ lookup.activity_type = "electricity"
               /\ lookup.amount = 1000
               /\ lookup.unit = "kWh"
               /\ lookup.country_code = "SE"
               /\ lookup.sub_type = None)
                  => lookup.emissions = 13 * MicroKg
    /\ GenerateSummary(DefaultFactors, DefaultThresholds, <<ExampleRecord>>,
                       1, 1, 1, NULL).summary.scope_2_total = 13 * MicroKg

\* 1 MWh of freight by truck in a country without a factor: 1000 x 0.097.
C11_Witness ==
    /\ IsEmissionsCall
    /\ lookup.activity_type = "transport_freight"
    /\ lookup.unit = "MWh"
    /\ lookup.sub_type = "truck"
    /\ lookup.emissions = 97 * MicroKg

\* ------------------------------------------------------------ claims: generate_summary
HasSummary == summary # NoSummary

\* The positions of the records of the summary's company and period.
Matching ==
    {i \in DOMAIN data_points :
        /\ data_points[i].company_id = summary.company_id
        /\ summary.period_start <= data_points[i].date
        /\ data_points[i].date <= summary.period_end}

\* The sum of co2_emissions over the matching records of a scope.
MatchingTotal(scope) ==
    SumFun([i \in {m \in Matching : data_points[m].scope = scope} |->
               data_points[i].co2_emissions])

\* C14: a summary aggregates exactly the records of the company whose date
\* is in the period, both ends included: each scope total is the sum of
\* their co2_emissions in the scope, total_emissions is the sum of the three
\* scope totals and data_points_count is their number.
C14_SummaryOfMatchingRecords ==
    HasSummary =>
        /\ summary.scope_1_total = MatchingTotal("scope_1")
        /\ summary.scope_2_total = MatchingTotal("scope_2")
        /\ summary.scope_3_total = MatchingTotal("scope_3")
        /\ summary.total_emissions =
               summary.scope_1_total + summary.scope_2_total + summary.scope_3_total
        /\ summary.data_points_count = Cardinality(Matching)

\* A summary of a record dated on the last day of the period, next to a
\* record outside the filter.
C14_Witness ==
    /\ HasSummary
    /\ summary.period_start < summary.period_end
    /\ Len(data_points) = 2
    /\ summary.data_points_count = 1
    /\ \E i \in Matching : data_points[i].date = summary.period_end
    /\ summary.total_emissions = 13 * MicroKg

\* The largest whole number of kg a total of the model can hold.
MaxKg == 2147483647 \div MicroKg

\* total > kg, for a total in 10^-6 kg
Above(total, kg) == kg <= MaxKg /\ total > kg * MicroKg

\* C15: the status of a summary is WARNING exactly when a scope total is
\* greater than its threshold; a total equal to its threshold does not warn.
C15_WarningIffAboveThreshold ==
    HasSummary =>
        (summary.compliance_status = "warning"
            <=> \/ Above(summary.scope_1_total, thresholds.scope_1_warning)
                \/ Above(summary.scope_2_total, thresholds.scope_2_warning)
                \/ Above(summary.scope_3_total, thresholds.scope_3_warning))

\* A scope 2 total equal to its threshold of 13 kg, and COMPLIANT.
C15_Witness ==
    /\ HasSummary
    /\ thresholds.scope_2_warning = 13
    /\ summary.scope_2_total = 13 * MicroKg
    /\ summary.compliance_status = "compliant"

C17_ChangePercentage ==
    HasSummary =>
        LET previous == summary.previous_period_total
            change == summary.total_emissions - previous
            whole_kg == change % MicroKg = 0 /\ previous % MicroKg = 0
        IN  IF previous # NULL /\ previous > 0
            THEN /\ summary.change_percentage.den > 0
                 /\ summary.change_percentage = Percent(change, previous)
                 /\ whole_kg =>
                        summary.change_percentage.num * (previous \div MicroKg) =
                            (change \div MicroKg) * 100 * summary.change_percentage.den
            ELSE summary.change_percentage = NullFraction

\* A summary of 26 kg after a period of 13 kg: + 100 %.
C17_Witness ==
    /\ HasSummary
    /\ summary.previous_period_total = 13 * MicroKg
    /\ summary.total_emissions = 26 * MicroKg
    /\ summary.change_percentage = [num |-> 100, den |-> 1]

\* ------------------------------------------------------------ claims: merging a config
\* C18: merging a config changes only the (activity, key) pairs it names: a
\* key of the built-in table the config does not name keeps its factor, a
\* key the config names takes the config's factor, and an activity the
\* config does not name keeps its entry.
C18_MergeChangesNamedPairsOnly ==
    /\ DOMAIN emission_factors = DOMAIN DefaultFactors \cup DOMAIN config
    /\ \A activity \in DOMAIN DefaultFactors :
           IF activity \in DOMAIN config
           THEN /\ DOMAIN emission_factors[activity] =
                       DOMAIN DefaultFactors[activity] \cup DOMAIN config[activity]
                /\ \A key \in DOMAIN config[activity] :
                       emission_factors[activity][key] = config[activity][key]
                /\ \A key \in DOMAIN DefaultFactors[activity] \ DOMAIN config[activity] :
                       emission_factors[activity][key] = DefaultFactors[activity][key]
           ELSE emission_factors[activity] = DefaultFactors[activity]

\* A config that names only DE for electricity: the lookup of SE still
\* finds the built-in 0.013 and DE is there.
C18_Witness ==
    /\ config = [electricity |-> [DE |-> 400]]
    /\ emission_factors["electricity"]["DE"] = 400
    /\ lookup # NoLookup
    /\ lookup.activity_type = "electricity"
    /\ lookup.country_code = "SE"
    /\ lookup.sub_type = None
    /\ lookup.factor = 13

\* C19: every activity entry of the registry has a 'default' key.
C19_EveryActivityHasDefault ==
    \A activity \in DOMAIN emission_factors :
        "default" \in DOMAIN emission_factors[activity]

\* ------------------------------------------------------------ claims: the factor cache
\* A reader has read the file while a refresh was between its start and its
\* return.
ReadDuringRefresh ==
    /\ \/ observed.pc = "load_cached_factors"
       \/ observed.pc = "get_factor_for_unit" /\ observed.unit # ""
    /\ observed.refresher.pc \in {"fetching", "writing", "loading"}

\* C20: a reader that runs while a refresh is in progress gets the whole
\* mapping of before the refresh or the whole mapping the refresh writes,
\* never an empty or a partly written one.
C20_ReaderSeesWholeMapping ==
    ReadDuringRefresh =>
        \/ observed.mapping = observed.refresher.before
        \/ /\ observed.refresher.pc \in {"writing", "loading"}
           /\ observed.mapping = NormalizedMapping(observed.refresher.combined)

\* ------------------------------------------------------------ claims: the predictor
\* No record of the batch carries emissions.
NoEmissionsIn(batch) ==
    \A i \in DOMAIN batch : batch[i].co2_emissions \in {NULL, 0}

\* C23: train with a batch in which no record carries emissions ends with an
\* error and trains nothing, and predict_future on a predictor that has
\* never completed a train ends with an error.
C23_UntrainedPredictorRefuses ==
    /\ (predictor.last.call = "train" /\ NoEmissionsIn(predictor.last.batch)) =>
           predictor.last.outcome = "ValueError"
    /\ (predictor.last.call = "predict_future" /\ ~predictor.ever_trained) =>
           predictor.last.outcome = "ValueError"
    /\ ~predictor.ever_trained => ~predictor.is_trained

\* predict_future has refused after a train whose fit failed.
C23_Witness ==
    /\ predictor.last.call = "predict_future"
    /\ predictor.last.outcome = "ValueError"
    /\ ~predictor.ever_trained
    /\ predictor.training_data # <<>>

\* The refresh has returned to its caller.
RefreshReturned == refresh.pc = "returned"

\* No turn of the loop over the sources got any data.
NothingFetched ==
    \A i \in DOMAIN refresh.fetched :
        refresh.fetched[i].raised \/ refresh.fetched[i].mapping = <<>>

FirstSupplier(fetched, key) ==
    CHOOSE i \in DOMAIN fetched :
        /\ key \in Keys(fetched[i].mapping)
        /\ \A j \in 1 .. (i - 1) : key \notin Keys(fetched[j].mapping)

\* The value a mapping gives for a key.
ValueIn(mapping, key) ==
    mapping[CHOOSE i \in DOMAIN mapping : mapping[i][1] = key][2]

RefreshedKeys == {NormalizeUnit(k) : k \in Keys(refresh.combined)}

\* C29: a refresh keeps every key cached before it, and keeps the value of
\* each key it got no data for.
C29_RefreshKeepsOtherKeys ==
    RefreshReturned =>
        \A k \in DOMAIN refresh.before :
            /\ k \in DOMAIN LoadCachedFactors(cache_file)
            /\ k \notin RefreshedKeys =>
                   LoadCachedFactors(cache_file)[k] = refresh.before[k]

\* The rows are one ON before the window and one OFF inside it, state
\* changes and nothing else.
RunBegunBefore(rows, start_iso, end_iso) ==
    /\ BagCardinality(rows) = 2
    /\ \A a \in DOMAIN rows :
           /\ a.energy_kwh = NULL /\ a.hours = NULL
           /\ a.session_start = NULL /\ a.session_end = NULL
           /\ ParseIso(a.timestamp) # NULL
    /\ \E on, off \in DOMAIN rows :
           /\ StateOf(on) = "ON" /\ on.timestamp < start_iso
           /\ StateOf(off) = "OFF"
           /\ start_iso < off.timestamp /\ off.timestamp <= end_iso

\* The time of the OFF row of the pair.
OffTime(rows) == (CHOOSE a \in DOMAIN rows : StateOf(a) = "OFF").timestamp

\* C24: a sensor with positive rated power whose rows are an ON before the
\* window and an OFF inside it gets an entry whose on_hours is the time from
\* the window start to the OFF and whose energy is on_hours times the rated
\* power.
C24_RunBegunBeforeWindowCounts ==
    (HasResult /\ result.path \in {"db", "py"}) =>
        \A s \in CompanySensors(sensors, result.company_id) :
            LET rows == RowsNaming(sensors_activity, s)
                power_kw == FloatOr0(s.power_kW)
            IN  (power_kw > 0 /\ RunBegunBefore(rows, result.start_iso, result.end_iso))
                => \E i \in EntriesOf(s) :
                       /\ result.summaries[i].on_hours = OffTime(rows) - result.start_iso
                       /\ result.summaries[i].energy_kwh =
                              Round6Energy((OffTime(rows) - result.start_iso) * power_kw)

\* The hours of the window that at least one of the rows covers.
CoveredHours(rows, start_iso, end_iso) ==
    Cardinality({t \in start_iso .. (end_iso - 1) :
        \E a \in DOMAIN rows : a.session_start <= t /\ t < a.session_end})

\* C25: a sensor whose energy comes from sessions with a start and an end is
\* credited with each hour of the window once, however many sessions cover
\* it, so with no more hours than the window has.
C25_OverlapCountedOnce ==
    HasResult =>
        \A i \in DOMAIN result.locals :
            LET acts == result.locals[i].acts
                durations == BagSelect(acts, {a \in DOMAIN acts : IsDurationAct(a)})
            IN  (/\ BagSelect(acts, {a \in DOMAIN acts : HasExplicit(a)}) = EmptyBag
                 /\ durations # EmptyBag
                 /\ \A a \in DOMAIN durations : a.hours = NULL /\ ValidInterval(a))
                => /\ result.summaries[i].on_hours =
                          CoveredHours(durations, result.start_iso, result.end_iso)
                   /\ result.summaries[i].on_hours <= result.end_iso - result.start_iso

\* C26: a record whose co2_emissions a calculation has just filled has
\* co2_emissions = converted amount * its own emission_factor, whether the
\* factor came from the registry or from the caller.
C26_FilledRecordIsConsistent ==
    [][\A i \in DOMAIN data_points :
          (/\ i \in DOMAIN data_points'
           /\ data_points'[i].co2_emissions # data_points[i].co2_emissions)
          => data_points'[i].co2_emissions =
                 ConvertUnits(data_points'[i].amount, data_points'[i].unit)
                     * data_points'[i].emission_factor]_vars

\* C27: the rows end_session has inserted never outnumber the sessions
\* started, whatever the order of the start_session and end_session steps,
\* and end_session inserts a row only while a session is running.
C27_AtMostOneRowPerSession ==
    [][/\ session_log'.inserted <= session_log'.started
       /\ session_log'.inserted > session_log.inserted =>
              \E id \in DOMAIN session_start : session_start[id] # NULL]_vars

\* A session is running and two end_session requests that ran at the same
\* time have both returned.
C27_Witness ==
    /\ session_log.started = 1
    /\ session_log.overlapped
    /\ end_requests = <<>>
    /\ session_log.last = "No active session to end"
    /\ session_log.inserted = 0
    /\ \E id \in DOMAIN session_start : session_start[id] # NULL

\* C28: when remove_sensor has deleted a sensor and run its deletion of the
\* activity rows, no row that names the sensor by its external or by its
\* canonical id is left.
C28_NoRowOfRemovedSensor ==
    [][(sensors' # sensors /\ session_log'.last = "removed") =>
          \A s \in sensors \ sensors' :
              RowsNaming(sensors_activity', s) = EmptyBag]_vars

\* The thresholds a compliance section should give: its own where it sets
\* them, the built-in ones elsewhere.
MergedThresholds(compliance) ==
    [k \in DOMAIN DefaultThresholds |->
        IF "thresholds" \in DOMAIN compliance /\ k \in DOMAIN compliance.thresholds
        THEN compliance.thresholds[k]
        ELSE DefaultThresholds[k]]

\* C30: whatever scopes the compliance section sets, the calculator has a
\* threshold for every scope, the built-in one where the section sets none,
\* and generate_summary returns a summary with a compliance status.
C30_PartialThresholdsKeepDefaults ==
    HasSummary =>
        /\ thresholds \in {MergedThresholds(c) :
                               c \in ComplianceConfigs \cup PartialComplianceConfigs}
        /\ "error" \notin DOMAIN summary
        /\ summary.compliance_status \in {"compliant", "warning"}
====
